---- MODULE Spec2Model ----
(***************************************************************************)
(* FastDL core engine (src/.core-main.rs): chunk planner, filename         *)
(* deriver, probe, ranged-parallel and single-stream transfer, batch       *)
(* scheduler and process exit status.                                      *)
(*                                                                         *)
(* Sizes are scaled: one MiB of the program is MiB units of the model and  *)
(* the 64-bit word of the program is U64Modulus values wide, so that the   *)
(* wrap-around of u64 arithmetic is inside the checked range.              *)
(***************************************************************************)
EXTENDS Integers, Sequences, FiniteSets, TLC

\* ---------------------------------------------------------------- scale
\* 1024 * 1024 (create_chunks, download_file), scaled.
MiB == 4
\* 2^64, the modulus of u64 / usize arithmetic, scaled.
U64Modulus == 64
\* get_file_info: let max_retries = 3
max_retries == 3

\* ---------------------------------------------------------------- bounds
\* largest config.connections drawn for a planner call
MaxConnections == 3
\* largest config.chunk_size_mb drawn for a planner call
MaxChunkSizeMb == 2

WrapU64(n) == n % U64Modulus

Min(a, b) == IF a < b THEN a ELSE b

\* ---------------------------------------------------------------- planner
\* One ChunkInfo of the ranged plan: chunk i (0-based) of num_chunks.
PlannedChunk(i, num_chunks, chunk_size_actual, remainder) ==
    LET start == WrapU64(i * chunk_size_actual)
        end0  == WrapU64(WrapU64(start + chunk_size_actual) - 1)
        end   == IF i = num_chunks - 1 THEN WrapU64(end0 + remainder) ELSE end0
    IN  [start |-> start, end |-> end, size |-> WrapU64(WrapU64(end - start) + 1),
         completed |-> FALSE, retries |-> 0]

\* std::cmp::min(connections, (file_size + chunk_size - 1) / chunk_size)
NumChunks(file_size, connections, chunk_size) ==
    Min(connections, WrapU64(WrapU64(file_size + chunk_size) - 1) \div chunk_size)

\* Faulty variant: file_size - 1 in wrapping arithmetic.
SingleChunkWrapping(file_size) ==
    [start |-> 0, end |-> WrapU64(file_size - 1),
     size |-> file_size, completed |-> FALSE, retries |-> 0]

\* create_chunks: the one chunk of a server without ranges or of an unknown
\* size; end is file_size.saturating_sub(1).
SingleChunk(file_size) ==
    [start |-> 0, end |-> IF file_size = 0 THEN 0 ELSE file_size - 1,
     size |-> file_size, completed |-> FALSE, retries |-> 0]

\* FastDownloader::create_chunks.  The result is [panic, chunks]: the call
\* panics on an arithmetic overflow when the build checks overflow
\* (overflow_checks, the debug profile), and on a division by zero in
\* every build.
create_chunks(file_size, supports_ranges, connections, chunk_size_mb, overflow_checks) ==
    IF ~supports_ranges \/ file_size = 0
    THEN [panic |-> FALSE, chunks |-> << SingleChunk(file_size) >>]
    ELSE
      LET chunk_size == WrapU64(chunk_size_mb * MiB)
          overflow   == \/ chunk_size_mb * MiB >= U64Modulus
                        \/ file_size + chunk_size >= U64Modulus
      IN  IF (overflow_checks /\ overflow) \/ chunk_size = 0
          THEN [panic |-> TRUE, chunks |-> << >>]
          ELSE
            LET num_chunks == NumChunks(file_size, connections, chunk_size)
            IN  IF num_chunks = 0
                THEN [panic |-> TRUE, chunks |-> << >>]
                ELSE
                  LET chunk_size_actual == file_size \div num_chunks
                      remainder         == file_size % num_chunks
                  IN  [panic |-> FALSE,
                       chunks |-> [k \in 1..num_chunks |->
                                     PlannedChunk(k - 1, num_chunks,
                                                  chunk_size_actual, remainder)]]

\* ---------------------------------------------------------------- filenames
\* A URL and a filename are sequences of code points.
Colon == 58
Slash == 47
Question == 63
Fragment == 35
Percent == 37
Underscore == 95

\* Positions of code point c in s.
Positions(s, c) == {i \in 1..Len(s) : s[i] = c}

MinOf(S) == CHOOSE x \in S : \A y \in S : x <= y
MaxOf(S) == CHOOSE x \in S : \A y \in S : x >= y

\* s up to (excluding) the first code point that is in stops.
Before(s, stops) ==
    LET at == {i \in 1..Len(s) : s[i] \in stops}
    IN  IF at = {} THEN s ELSE SubSeq(s, 1, MinOf(at) - 1)

\* url::Url::parse succeeds on "<scheme>://..." (the URLs of the model are
\* absolute http URLs or have no scheme at all).
ParseOk(url) ==
    \E i \in 2..Len(url) : /\ i + 2 <= Len(url)
                            /\ url[i] = Colon /\ url[i+1] = Slash /\ url[i+2] = Slash

\* parsed_url.path_segments().last(): the text after the last slash of the
\* path, query and fragment removed; the path of "http://host" is "/".
LastSegment(url) ==
    LET path   == Before(url, {Question, Fragment})
        slash  == Positions(path, Slash)
    IN  IF Cardinality(slash) < 3 THEN << >>
        ELSE SubSeq(path, MaxOf(slash) + 1, Len(path))

IsHex(c) == c \in (48..57) \cup (65..70) \cup (97..102)
HexVal(c) == IF c \in 48..57 THEN c - 48 ELSE IF c \in 65..70 THEN c - 55 ELSE c - 87

\* urlencoding::decode: %XX becomes the byte XX, anything else is kept
\* (the escapes of the model's URLs are ASCII, so the bytes are code points).
RECURSIVE PercentDecode(_)
PercentDecode(s) ==
    IF s = << >> THEN << >>
    ELSE IF s[1] = Percent /\ Len(s) >= 3 /\ IsHex(s[2]) /\ IsHex(s[3])
         THEN << 16 * HexVal(s[2]) + HexVal(s[3]) >> \o PercentDecode(SubSeq(s, 4, Len(s)))
         ELSE << s[1] >> \o PercentDecode(Tail(s))

\* format!("{}", n) of an unsigned number
RECURSIVE Decimal(_)
Decimal(n) == IF n < 10 THEN << 48 + n >> ELSE Decimal(n \div 10) \o << 48 + (n % 10) >>

\* url.chars().fold(0u32, |acc, c| acc.wrapping_add(c as u32)); the sum of a
\* URL of the model stays far below 2^32.
RECURSIVE url_hash(_)
url_hash(url) == IF url = << >> THEN 0 ELSE url[1] + url_hash(Tail(url))

\* "download_"
DownloadPrefix == << 100, 111, 119, 110, 108, 111, 97, 100, 95 >>
\* "unknown"
Unknown == << 117, 110, 107, 110, 111, 119, 110 >>

\* FastDownloader::extract_filename; now is SystemTime::now() in seconds.
extract_filename(url, now) ==
    LET last_segment == IF ParseOk(url) THEN LastSegment(url) ELSE << >>
        clean_name   == Before(PercentDecode(last_segment), {Question})
    IN  IF last_segment # << >> /\ clean_name # << >>
        THEN clean_name
        ELSE DownloadPrefix \o Decimal(url_hash(url)) \o << Underscore >> \o Decimal(now)

\* ---------------------------------------------------------------- inputs
\* "http://a/f", "http://b/f" (same last path segment as the first) and
\* "http://a/g"
UrlAF == << 104, 116, 116, 112, 58, 47, 47, 97, 47, 102 >>
UrlBF == << 104, 116, 116, 112, 58, 47, 47, 98, 47, 102 >>
UrlAG == << 104, 116, 116, 112, 58, 47, 47, 97, 47, 103 >>


\* SystemTime::now() in seconds, at the call of extract_filename.
Now == 1700000000

\* largest config.connections, config.retries, config.max_concurrent of a run
RunConnections == 2
RunRetries == 2
RunMaxConcurrent == 2
\* largest config.chunk_size_mb of a run
RunChunkSizeMb == 2

\* A server, for one URL: the status of its answer to HEAD, Content-Length
\* (0 when absent), whether Accept-Ranges is "bytes", and whether it answers
\* a Range request with 206 and the range (or with 200 and the whole file).
Server(status, file_size, supports_ranges, honors_range) ==
    [status |-> status, file_size |-> file_size, supports_ranges |-> supports_ranges,
     honors_range |-> honors_range]

NotFound == Server(404, 0, FALSE, FALSE)
NoLength == Server(200, 0, FALSE, FALSE)
Ranged   == Server(200, MiB + 1, TRUE, TRUE)
Huge     == Server(200, U64Modulus - 1, TRUE, TRUE)

\* The servers of a run on one URL, of a batch of two and of a batch of three.
Profiles == { NotFound, NoLength, Ranged, Huge,
              Server(200, MiB, TRUE, TRUE),
              Server(200, MiB + 1, FALSE, FALSE),
              Server(200, MiB + 1, TRUE, FALSE) }
PairProfiles == { NotFound, NoLength, Ranged, Huge }
TripleProfiles == { NotFound, NoLength }

\* Transport, timeout, status and file errors the environment injects in a
\* run on one URL, and in a batch.
SingleFaults == 3
BatchFaults == 1

\* Lengths of the body of a response that states no length.
UnknownBodies == {0, 2}

\* A body arrives in frames: the rest of the body, or half of it.
FrameLens(remaining) == {remaining, (remaining + 1) \div 2}

\* ---------------------------------------------------------------- state
VARIABLES
    call,        \* a planner call: inputs and result (planner specification)
    config,      \* DownloadConfig
    urls,        \* the URL list of main
    mainPc,      \* position of main
    exitStatus,  \* process exit status, -1 while running
    results,     \* Vec<DownloadResult> of main
    joined,      \* download_batch: the handles awaited so far
    semaphore,   \* permits available in FastDownloader.semaphore
    batchSem,    \* permits available in download_batch's semaphore
    dl,          \* per URL: the download_file call (and its batch task)
    ck,          \* per URL: the chunk tasks of download_multithread
    files,       \* output_dir, by filename: [exists, ino, len]
    nextIno,     \* next inode number
    touched,     \* by filename: the downloads that created, truncated, wrote or removed it
    server,      \* per URL: the server behind it
    faults       \* errors the environment may still inject

vars == << call, config, urls, mainPc, exitStatus, results, joined, semaphore, batchSem,
           dl, ck, files, nextIno, touched, server, faults >>

engineVars == << config, urls, mainPc, exitStatus, results, joined, semaphore, batchSem,
                 dl, ck, files, nextIno, touched, server, faults >>

NoCall == [file_size |-> 0, supports_ranges |-> FALSE, connections |-> 1,
           chunk_size_mb |-> 1, overflow_checks |-> FALSE, done |-> FALSE,
           out |-> [panic |-> FALSE, chunks |-> << >>]]

NoError == [kind |-> "none", status |-> 0, chunks |-> << >>]

\* DownloadResult (the times and the speed are left out).
DownloadResult(url, filename, success, error, file_size) ==
    [url |-> url, filename |-> filename, success |-> success, error |-> error,
     file_size |-> file_size]

NoResult == DownloadResult(<< >>, << >>, FALSE, NoError, 0)

Ids == 1..Len(urls)

\* extract_filename of every URL of the runs.
Urls == {UrlAF, UrlBF, UrlAG}
Filenames == [u \in Urls |-> extract_filename(u, Now)]

\* The filenames a run can write.
Names(us) == {Filenames[us[i]] : i \in 1..Len(us)}

NoFile == [exists |-> FALSE, ino |-> 0, len |-> 0]

IdleTask == [pc |-> "idle", retries |-> 0, heads |-> 0, sleeps |-> << >>,
             dir_created |-> FALSE,
             file_size |-> 0, filename |-> << >>, supports_ranges |-> FALSE,
             total_size |-> 0, downloaded |-> 0, chunks_total |-> 0, chunks_completed |-> 0,
             strategy |-> "none", gets |-> 0, ranges |-> {}, body |-> 0, received |-> 0,
             ino |-> 0,
             result |-> NoResult, leftover |-> FALSE]

\* The engine before main runs, for the URL list us and the configuration cfg.
EngineInit(us, cfg, srv, f) ==
    /\ config = cfg
    /\ server = srv
    /\ faults = f
    /\ urls = us
    /\ mainPc = "start"
    /\ exitStatus = -1
    /\ results = << >>
    /\ joined = 0
    /\ semaphore = cfg.connections
    /\ batchSem = 0
    /\ dl = [d \in 1..Len(us) |-> IdleTask]
    /\ ck = [d \in 1..Len(us) |-> << >>]
    /\ files = [n \in Names(us) |-> NoFile]
    /\ nextIno = 1
    /\ touched = [n \in Names(us) |-> {}]

Configs == [connections : {1, RunConnections}, chunk_size_mb : {1, RunChunkSizeMb},
            retries : {1, RunRetries}, max_concurrent : {1, RunMaxConcurrent},
            verbose : {FALSE}]

\* A run of main: the URL list, the configuration, the servers, the errors.
Run(us, cfg, srv, f) == [urls |-> us, config |-> cfg, server |-> srv, faults |-> f]

SingleRuns ==
    { Run(<< UrlAF >>, cfg, << p >>, SingleFaults) :
        cfg \in { c \in Configs : c.max_concurrent = 1 }, p \in Profiles }

\* The configurations of the batches.
BatchConfigs == { c \in Configs : /\ c.connections = RunConnections
                                  /\ c.retries = RunRetries
                                  /\ c.chunk_size_mb = 1 }

\* The batches of two into one path with a ranged-parallel download.
SamePathRanged == { r \in [urls : {<< UrlAF, UrlBF >>}, config : Configs,
                           server : PairProfiles \X PairProfiles, faults : {BatchFaults}] :
                        Ranged \in {r.server[1], r.server[2]} }

PairRuns ==
    { Run(us, cfg, << p, q >>, BatchFaults) :
        us \in { << UrlAF, UrlAG >>, << UrlAF, UrlBF >> },
        cfg \in BatchConfigs,
        p \in PairProfiles, q \in PairProfiles } \ SamePathRanged

TripleRuns ==
    { Run(<< UrlAF, UrlAG, UrlBF >>, cfg, << p, q, r >>, BatchFaults) :
        cfg \in BatchConfigs,
        p \in TripleProfiles, q \in TripleProfiles, r \in TripleProfiles }

\* The runs with config.verbose: one URL, its file large enough for chunks.
VerboseRuns ==
    { Run(<< UrlAF >>, [cfg EXCEPT !.verbose = TRUE], << p >>, SingleFaults) :
        cfg \in { c \in Configs : /\ c.max_concurrent = 1
                                  /\ c.connections = RunConnections
                                  /\ c.chunk_size_mb = 1 },
        p \in { Ranged, Server(200, MiB + 1, TRUE, FALSE) } }

Runs == SingleRuns \cup PairRuns \cup TripleRuns \cup VerboseRuns

Init ==
    /\ call = NoCall
    /\ \E run \in Runs : EngineInit(run.urls, run.config, run.server, run.faults)

\* ---------------------------------------------------------------- files
\* std::fs::File::create: truncates the file of the path, or creates one.
FileCreate(fs, name, ino) ==
    [fs EXCEPT ![name] = IF @.exists THEN [@ EXCEPT !.len = 0]
                         ELSE [exists |-> TRUE, ino |-> ino, len |-> 0]]

\* OpenOptions::new().create(true).write(true).open: no truncation.
FileOpenCreate(fs, name, ino) ==
    [fs EXCEPT ![name] = IF @.exists THEN @
                         ELSE [exists |-> TRUE, ino |-> ino, len |-> 0]]

\* file.set_len
FileSetLen(fs, name, len) == [fs EXCEPT ![name].len = len]

\* write_all of n bytes at offset through a handle on inode ino; the path
\* sees the write when it still names that inode.
FileWrite(fs, name, ino, offset, n) ==
    IF fs[name].exists /\ fs[name].ino = ino /\ offset + n > fs[name].len
    THEN [fs EXCEPT ![name].len = offset + n]
    ELSE fs

\* std::fs::remove_file
FileRemove(fs, name) == [fs EXCEPT ![name] = NoFile]

Touch(name, d) == [touched EXCEPT ![name] = @ \cup {d}]

\* The path of download d: output_dir/filename.
Path(d) == Filenames[urls[d]]

\* ---------------------------------------------------------------- download_file
\* What no step of a run changes.
fixed == << call, config, urls, server >>
\* What only main and download_batch change.
mainVars == << mainPc, exitStatus, results, joined >>

\* The environment injects an error / does not.
Fault == faults > 0 /\ faults' = faults - 1
NoFault == UNCHANGED faults

\* Faulty variant: a download that fails keeps its batch permit.
ReturnKeepsPermitOnFailure(d, task, fs, r) ==
    /\ dl' = [dl EXCEPT ![d] = [task EXCEPT !.pc = "done", !.result = r,
                                            !.leftover = fs[Path(d)].exists]]
    /\ batchSem' = IF mainPc = "batch" /\ r.success THEN batchSem + 1 ELSE batchSem

\* download_file returns result r; in a batch the task then ends and drops
\* its permit.  task is d's record and fs the files as this step leaves them.
Return(d, task, fs, r) ==
    /\ dl' = [dl EXCEPT ![d] = [task EXCEPT !.pc = "done", !.result = r,
                                            !.leftover = fs[Path(d)].exists]]
    /\ batchSem' = IF mainPc = "batch" THEN batchSem + 1 ELSE batchSem

\* The Err arm of download_file: remove the output file, return the failure.
ReturnErr(d, task, e) ==
    /\ files' = FileRemove(files, Path(d))
    /\ touched' = IF files[Path(d)].exists THEN Touch(Path(d), d) ELSE touched
    /\ Return(d, task, files', DownloadResult(urls[d], task.filename, FALSE, e, task.downloaded))

\* The Ok arm of download_file.
ReturnOk(d, task) ==
    /\ UNCHANGED << files, touched >>
    /\ Return(d, task, files, DownloadResult(urls[d], task.filename, TRUE, NoError, task.downloaded))

Error(kind) == [kind |-> kind, status |-> 0, chunks |-> << >>]
HttpError(kind, status) == [kind |-> kind, status |-> status, chunks |-> << >>]

\* Faulty variant: 404 passes for an answer that describes the file.
IsSuccessOrNotFound(status) == status \in 200..299 \/ status = 404

\* response.status().is_success()
IsSuccess(status) == status \in 200..299

\* get_file_info: the sleep before a retry is 1000 * (1 << retries) ms.
BackoffUnit == 1000

\* get_file_info: one HEAD request and what follows its answer.
HeadRequest(d) ==
    /\ dl[d].pc = "probe"
    /\ LET task == [dl[d] EXCEPT !.heads = @ + 1] IN
       \/ \* transport error
          /\ Fault
          /\ LET retries == task.retries + 1 IN
             IF retries >= max_retries
             THEN Return(d, [task EXCEPT !.retries = retries], files,
                         DownloadResult(urls[d], Unknown, FALSE, Error("file info"), 0))
             ELSE /\ dl' = [dl EXCEPT ![d] = [task EXCEPT
                                  !.retries = retries,
                                  !.sleeps = Append(@, BackoffUnit * 2^retries),
                                  !.pc = "probe_sleep"]]
                  /\ UNCHANGED batchSem
       \/ \* a response
          /\ NoFault
          /\ IF ~IsSuccess(server[d].status)
             THEN Return(d, task, files,
                         DownloadResult(urls[d], Unknown, FALSE,
                                        HttpError("file info", server[d].status), 0))
             ELSE /\ dl' = [dl EXCEPT ![d] = [task EXCEPT
                                  !.file_size = server[d].file_size,
                                  !.filename = Filenames[urls[d]],
                                  !.supports_ranges = server[d].supports_ranges,
                                  !.pc = "mkdir"]]
                  /\ UNCHANGED batchSem
    /\ UNCHANGED << fixed, mainVars, semaphore, ck, files, nextIno, touched >>

\* get_file_info: the backoff sleep ends.
HeadBackoff(d) ==
    /\ dl[d].pc = "probe_sleep"
    /\ dl' = [dl EXCEPT ![d].pc = "probe"]
    /\ UNCHANGED << fixed, mainVars, semaphore, batchSem,
                    ck, files, nextIno, touched, faults >>

\* Faulty variant: a file of exactly 1 MiB is downloaded ranged-parallel.
StrategyFromMiB(task) ==
    IF task.supports_ranges /\ task.file_size >= MiB /\ config.connections > 1
    THEN "multi" ELSE "single"

\* download_file: ranged-parallel or single-stream.
Strategy(task) ==
    IF task.supports_ranges /\ task.file_size > MiB /\ config.connections > 1
    THEN "multi" ELSE "single"

\* download_file: create_dir_all, the stats, the choice of the strategy.
CreateDir(d) ==
    /\ dl[d].pc = "mkdir"
    /\ \/ /\ Fault
          /\ Return(d, dl[d], files,
                    DownloadResult(urls[d], dl[d].filename, FALSE, Error("output directory"),
                                   dl[d].file_size))
       \/ /\ NoFault
          /\ dl' = [dl EXCEPT ![d] = [@ EXCEPT !.dir_created = TRUE,
                                               !.total_size = dl[d].file_size,
                                               !.downloaded = 0,
                                               !.strategy = Strategy(dl[d]),
                                               !.pc = Strategy(dl[d])]]
          /\ UNCHANGED batchSem
    /\ UNCHANGED << fixed, mainVars, semaphore, ck, files, nextIno, touched >>

\* ---------------------------------------------------------------- single-stream
\* download_single_stream: the GET (client.get(url), no Range header), its
\* status, File::create.
SingleGet(d) ==
    /\ dl[d].pc = "single"
    /\ LET task == [dl[d] EXCEPT !.gets = @ + 1, !.ranges = @ \cup {<< >>}] IN
       \/ \* send error, status outside 2xx, File::create error
          /\ Fault
          /\ \E e \in {Error("network"), HttpError("http", 500), Error("io")} :
                ReturnErr(d, task, e)
          /\ UNCHANGED nextIno
       \/ /\ NoFault
          /\ \E body \in IF task.file_size > 0 THEN {task.file_size} ELSE UnknownBodies :
             /\ files' = FileCreate(files, Path(d), nextIno)
             /\ nextIno' = IF files[Path(d)].exists THEN nextIno ELSE nextIno + 1
             /\ touched' = Touch(Path(d), d)
             /\ dl' = [dl EXCEPT ![d] = [task EXCEPT !.pc = "stream", !.body = body,
                                                     !.received = 0,
                                                     !.ino = files'[Path(d)].ino]]
             /\ UNCHANGED batchSem
    /\ UNCHANGED << fixed, mainVars, semaphore, ck >>

\* download_single_stream: one frame of the body is written and counted.
SingleFrame(d) ==
    /\ dl[d].pc = "stream"
    /\ dl[d].received < dl[d].body
    /\ \E n \in FrameLens(dl[d].body - dl[d].received) :
          /\ files' = FileWrite(files, Path(d), dl[d].ino, dl[d].received, n)
          /\ touched' = IF files[Path(d)].exists /\ files[Path(d)].ino = dl[d].ino
                        THEN Touch(Path(d), d) ELSE touched
          /\ dl' = [dl EXCEPT ![d] = [@ EXCEPT !.received = @ + n,
                                               !.downloaded = WrapU64(@ + n)]]
    /\ UNCHANGED << fixed, mainVars, semaphore, batchSem,
                    ck, nextIno, faults >>

\* download_single_stream: the body ends, flush, Ok.
SingleEnd(d) ==
    /\ dl[d].pc = "stream"
    /\ dl[d].received = dl[d].body
    /\ ReturnOk(d, dl[d])
    /\ UNCHANGED << fixed, mainVars, semaphore, ck, nextIno, faults >>

\* Faulty variant: a failed stream is retried with another GET.
SingleErrorRetries(d) ==
    /\ dl[d].pc = "stream"
    /\ dl[d].received < dl[d].body
    /\ Fault
    /\ dl' = [dl EXCEPT ![d].pc = "single"]
    /\ UNCHANGED << fixed, mainVars, semaphore, batchSem, ck, files, nextIno, touched >>

\* download_single_stream: the stream or a write fails.
SingleError(d) ==
    /\ dl[d].pc = "stream"
    /\ dl[d].received < dl[d].body
    /\ Fault
    /\ ReturnErr(d, dl[d], Error("network"))
    /\ UNCHANGED << fixed, mainVars, semaphore, ck, nextIno >>

\* ---------------------------------------------------------------- ranged-parallel
\* The chunk task of download_chunk for one ChunkInfo.
ChunkTask(chunk) ==
    [start |-> chunk.start, end |-> chunk.end, size |-> chunk.size,
     completed |-> chunk.completed, retries |-> chunk.retries,
     pc |-> "acquire", gets |-> 0, ranges |-> {}, body |-> 0, written |-> 0, ino |-> 0]

\* download_multithread up to the spawn of the chunk tasks.
MultiStart(d) ==
    /\ dl[d].pc = "multi"
    /\ \E overflow_checks \in BOOLEAN :
        LET plan == create_chunks(dl[d].file_size, dl[d].supports_ranges,
                                  config.connections, config.chunk_size_mb, overflow_checks)
            task == [dl[d] EXCEPT !.chunks_total = Len(plan.chunks)]
        IN  IF plan.panic
            THEN /\ dl' = [dl EXCEPT ![d].pc = "panicked"]
                 /\ batchSem' = IF mainPc = "batch" THEN batchSem + 1 ELSE batchSem
                 /\ UNCHANGED << ck, files, nextIno, touched, faults >>
            ELSE \/ \* File::create or set_len error
                    /\ Fault
                    /\ ReturnErr(d, task, Error("io"))
                    /\ UNCHANGED << ck, nextIno >>
                 \/ /\ NoFault
                    /\ files' = FileSetLen(FileCreate(files, Path(d), nextIno),
                                           Path(d), task.file_size)
                    /\ nextIno' = IF files[Path(d)].exists THEN nextIno ELSE nextIno + 1
                    /\ touched' = Touch(Path(d), d)
                    /\ ck' = [ck EXCEPT ![d] = [i \in 1..Len(plan.chunks) |->
                                                  ChunkTask(plan.chunks[i])]]
                    /\ dl' = [dl EXCEPT ![d] = [task EXCEPT !.pc = "join"]]
                    /\ UNCHANGED batchSem
    /\ UNCHANGED << fixed, mainVars, semaphore >>

\* Faulty variant: the attempt starts without waiting for a permit.
ChunkAcquireNoWait(d, i) ==
    /\ ck[d][i].pc = "acquire"
    /\ semaphore' = semaphore - 1
    /\ ck' = [ck EXCEPT ![d][i].pc = "send"]
    /\ UNCHANGED << fixed, mainVars, batchSem, dl, files, nextIno, touched, faults >>

\* download_chunk: self.semaphore.acquire()
ChunkAcquire(d, i) ==
    /\ ck[d][i].pc = "acquire"
    /\ semaphore > 0
    /\ semaphore' = semaphore - 1
    /\ ck' = [ck EXCEPT ![d][i].pc = "send"]
    /\ UNCHANGED << fixed, mainVars, batchSem,
                    dl, files, nextIno, touched, faults >>

\* Faulty variant: the loop allows one attempt more than config.retries.
AttemptFailedOnceMore(d, i, chunk) ==
    LET retries == chunk.retries + 1 IN
    IF retries <= config.retries
    THEN /\ ck' = [ck EXCEPT ![d][i] = [chunk EXCEPT !.retries = retries, !.pc = "sleep"]]
         /\ UNCHANGED semaphore
    ELSE /\ ck' = [ck EXCEPT ![d][i] = [chunk EXCEPT !.retries = retries, !.pc = "err"]]
         /\ semaphore' = semaphore + 1

\* download_chunk, the Err arm: count the retry; sleep with the permit of
\* this iteration still held, or leave the loop.
AttemptFailed(d, i, chunk) ==
    LET retries == chunk.retries + 1 IN
    IF retries < config.retries
    THEN /\ ck' = [ck EXCEPT ![d][i] = [chunk EXCEPT !.retries = retries, !.pc = "sleep"]]
         /\ UNCHANGED semaphore
    ELSE /\ ck' = [ck EXCEPT ![d][i] = [chunk EXCEPT !.retries = retries, !.pc = "err"]]
         /\ semaphore' = semaphore + 1

\* Faulty variant: a retry asks for the bytes the failed attempt did not write.
RangeHeaderResume(chunk) ==
    IF chunk.start > 0 \/ chunk.end < WrapU64(chunk.start + chunk.size)
    THEN << chunk.start + chunk.written, chunk.end >> ELSE << >>

\* download_chunk_attempt: the Range header of the request, << >> for none.
RangeHeader(chunk) ==
    IF chunk.start > 0 \/ chunk.end < WrapU64(chunk.start + chunk.size)
    THEN << chunk.start, chunk.end >> ELSE << >>

\* The length of the body a server sends for the request of a chunk.
BodyLen(srv, chunk) ==
    IF RangeHeader(chunk) # << >> /\ srv.honors_range THEN chunk.size ELSE srv.file_size

\* download_chunk_attempt: the GET, its status, the open and the seek.
ChunkSend(d, i) ==
    /\ ck[d][i].pc = "send"
    /\ LET chunk == [ck[d][i] EXCEPT !.gets = @ + 1,
                                     !.ranges = @ \cup {RangeHeader(ck[d][i])}] IN
       \/ \* send error, timeout, status outside 2xx, open or seek error
          /\ Fault
          /\ AttemptFailed(d, i, chunk)
          /\ UNCHANGED << files, nextIno, touched >>
       \/ \* 206 with the bytes of the range, or 200 with the whole file
          /\ NoFault
          /\ files' = FileOpenCreate(files, Path(d), nextIno)
          /\ nextIno' = IF files[Path(d)].exists THEN nextIno ELSE nextIno + 1
          /\ touched' = IF files[Path(d)].exists THEN touched ELSE Touch(Path(d), d)
          /\ ck' = [ck EXCEPT ![d][i] = [chunk EXCEPT !.pc = "stream",
                                                      !.body = BodyLen(server[d], chunk),
                                                      !.written = 0,
                                                      !.ino = files'[Path(d)].ino]]
          /\ UNCHANGED semaphore
    /\ UNCHANGED << fixed, mainVars, batchSem, dl >>

\* 256 * 1024 bytes.
ProgressUnit == MiB \div 4

\* download_chunk_attempt: the progress line is printed after this frame.
ReportsProgress(chunk_downloaded) ==
    config.verbose /\ chunk_downloaded % ProgressUnit = 0

\* DownloadStats::eta_seconds: total_size - downloaded, which panics on
\* underflow in a build with overflow checks and wraps in one without.
EtaRemaining(stats) == WrapU64(stats.total_size - stats.downloaded)
EtaPanics(stats, overflow_checks) ==
    overflow_checks /\ stats.downloaded > stats.total_size

\* download_chunk_attempt: one frame is written and counted, and in verbose
\* mode the progress is printed.
ChunkFrame(d, i) ==
    /\ ck[d][i].pc = "stream"
    /\ ck[d][i].written < ck[d][i].body
    /\ \E n \in FrameLens(ck[d][i].body - ck[d][i].written) :
          /\ files' = FileWrite(files, Path(d), ck[d][i].ino,
                                ck[d][i].start + ck[d][i].written, n)
          /\ touched' = IF files[Path(d)].exists /\ files[Path(d)].ino = ck[d][i].ino
                        THEN Touch(Path(d), d) ELSE touched
          /\ dl' = [dl EXCEPT ![d].downloaded = WrapU64(@ + n)]
          /\ \E overflow_checks \in BOOLEAN :
                IF /\ ReportsProgress(ck[d][i].written + n)
                   /\ EtaPanics(dl'[d], overflow_checks)
                THEN \* the task panics in eta_seconds and drops its permit
                     /\ ck' = [ck EXCEPT ![d][i] = [@ EXCEPT !.written = @ + n,
                                                            !.pc = "panicked"]]
                     /\ semaphore' = semaphore + 1
                ELSE /\ ck' = [ck EXCEPT ![d][i].written = @ + n]
                     /\ UNCHANGED semaphore
    /\ UNCHANGED << fixed, mainVars, batchSem, nextIno, faults >>

\* Faulty variant: the task returns the chunk and keeps its permit.
ChunkDoneKeepsPermit(d, i) ==
    /\ ck[d][i].pc = "stream"
    /\ ck[d][i].written = ck[d][i].body
    /\ ck' = [ck EXCEPT ![d][i] = [@ EXCEPT !.completed = TRUE, !.pc = "ok"]]
    /\ dl' = [dl EXCEPT ![d].chunks_completed = @ + 1]
    /\ UNCHANGED << fixed, mainVars, semaphore, batchSem, files, nextIno, touched, faults >>

\* download_chunk: the attempt returns Ok, the task returns the chunk.
ChunkDone(d, i) ==
    /\ ck[d][i].pc = "stream"
    /\ ck[d][i].written = ck[d][i].body
    /\ ck' = [ck EXCEPT ![d][i] = [@ EXCEPT !.completed = TRUE, !.pc = "ok"]]
    /\ dl' = [dl EXCEPT ![d].chunks_completed = @ + 1]
    /\ semaphore' = semaphore + 1
    /\ UNCHANGED << fixed, mainVars, batchSem,
                    files, nextIno, touched, faults >>

\* download_chunk_attempt: the stream or a write fails.
ChunkStreamError(d, i) ==
    /\ ck[d][i].pc = "stream"
    /\ ck[d][i].written < ck[d][i].body
    /\ Fault
    /\ AttemptFailed(d, i, ck[d][i])
    /\ UNCHANGED << fixed, mainVars, batchSem, dl, files, nextIno, touched >>

\* Faulty variant: the permit of the failed iteration is never dropped.
ChunkBackoffKeepsPermit(d, i) ==
    /\ ck[d][i].pc = "sleep"
    /\ ck' = [ck EXCEPT ![d][i].pc = "acquire"]
    /\ UNCHANGED << fixed, mainVars, semaphore, batchSem,
                    dl, files, nextIno, touched, faults >>

\* download_chunk: the backoff sleep ends, the iteration ends and drops its
\* permit.
ChunkBackoff(d, i) ==
    /\ ck[d][i].pc = "sleep"
    /\ ck' = [ck EXCEPT ![d][i].pc = "acquire"]
    /\ semaphore' = semaphore + 1
    /\ UNCHANGED << fixed, mainVars, batchSem,
                    dl, files, nextIno, touched, faults >>

\* "Chunk {start}-{end} failed after {retries} retries"
\* and "Task error: ..." (here << >>) for a task that panicked
ChunkErrors(tasks) ==
    LET failed == SelectSeq(tasks, LAMBDA c : c.pc \in {"err", "panicked"})
    IN  [k \in 1..Len(failed) |->
            IF failed[k].pc = "err"
            THEN << failed[k].start, failed[k].end, config.retries >>
            ELSE << >>]

\* Faulty variant: download_multithread returns at the first failed chunk.
MultiJoinFailFast(d) ==
    /\ dl[d].pc = "join"
    /\ \/ \A i \in 1..Len(ck[d]) : ck[d][i].pc \in {"ok", "err", "panicked"}
       \/ \E i \in 1..Len(ck[d]) : ck[d][i].pc = "err"
    /\ IF ChunkErrors(ck[d]) = << >>
       THEN ReturnOk(d, dl[d])
       ELSE ReturnErr(d, dl[d], [kind |-> "chunks", status |-> 0,
                                 chunks |-> ChunkErrors(ck[d])])
    /\ UNCHANGED << fixed, mainVars, semaphore, ck, nextIno, faults >>

\* download_multithread: every handle is awaited; download_file returns.
MultiJoin(d) ==
    /\ dl[d].pc = "join"
    /\ \A i \in 1..Len(ck[d]) : ck[d][i].pc \in {"ok", "err", "panicked"}
    /\ IF ChunkErrors(ck[d]) = << >>
       THEN ReturnOk(d, dl[d])
       ELSE ReturnErr(d, dl[d], [kind |-> "chunks", status |-> 0,
                                 chunks |-> ChunkErrors(ck[d])])
    /\ UNCHANGED << fixed, mainVars, semaphore, ck, nextIno, faults >>

\* ---------------------------------------------------------------- batch and main
\* main: one URL is downloaded by download_file itself, several by
\* download_batch, which makes its semaphore and spawns one task per URL.
MainStart ==
    /\ mainPc = "start"
    /\ IF Len(urls) = 1
       THEN /\ mainPc' = "single"
            /\ dl' = [dl EXCEPT ![1].pc = "probe"]
            /\ UNCHANGED batchSem
       ELSE /\ mainPc' = "batch"
            /\ batchSem' = config.max_concurrent
            /\ dl' = [d \in Ids |-> [dl[d] EXCEPT !.pc = "waiting"]]
    /\ UNCHANGED << fixed, exitStatus, results, joined, semaphore, ck, files, nextIno, touched,
                    faults >>

\* Faulty variant: the task calls download_file without waiting for a permit.
AcquireBatchNoWait(d) ==
    /\ dl[d].pc = "waiting"
    /\ batchSem' = batchSem - 1
    /\ dl' = [dl EXCEPT ![d].pc = "probe"]
    /\ UNCHANGED << fixed, mainPc, exitStatus, results, joined, semaphore,
                    ck, files, nextIno, touched, faults >>

\* download_batch, the task of URL d: semaphore.acquire(), then download_file.
AcquireBatch(d) ==
    /\ dl[d].pc = "waiting"
    /\ batchSem > 0
    /\ batchSem' = batchSem - 1
    /\ dl' = [dl EXCEPT ![d].pc = "probe"]
    /\ UNCHANGED << fixed, mainVars, semaphore,
                    ck, files, nextIno, touched, faults >>

\* The result pushed for a task that panicked.
TaskError == DownloadResult(Unknown, Unknown, FALSE, Error("task"), 0)

\* Faulty variant: a task that panicked contributes no result.
JoinHandleSkipsPanicked ==
    /\ mainPc = "batch"
    /\ joined < Len(urls)
    /\ LET d == joined + 1 IN
       /\ dl[d].pc \in {"done", "panicked"}
       /\ results' = IF dl[d].pc = "done" THEN Append(results, dl[d].result) ELSE results
    /\ joined' = joined + 1
    /\ UNCHANGED << fixed, mainPc, exitStatus, semaphore, batchSem,
                    dl, ck, files, nextIno, touched, faults >>

\* Faulty variant: the handles are awaited last spawned first.
JoinHandleLastFirst ==
    /\ mainPc = "batch"
    /\ joined < Len(urls)
    /\ LET d == Len(urls) - joined IN
       /\ dl[d].pc \in {"done", "panicked"}
       /\ results' = Append(results, IF dl[d].pc = "done" THEN dl[d].result ELSE TaskError)
    /\ joined' = joined + 1
    /\ UNCHANGED << fixed, mainPc, exitStatus, semaphore, batchSem,
                    dl, ck, files, nextIno, touched, faults >>

\* download_batch: the next handle, in spawn order, is awaited and its
\* result pushed.
JoinHandle ==
    /\ mainPc = "batch"
    /\ joined < Len(urls)
    /\ LET d == joined + 1 IN
       /\ dl[d].pc \in {"done", "panicked"}
       /\ results' = Append(results, IF dl[d].pc = "done" THEN dl[d].result ELSE TaskError)
    /\ joined' = joined + 1
    /\ UNCHANGED << fixed, mainPc, exitStatus, semaphore, batchSem,
                    dl, ck, files, nextIno, touched, faults >>

\* main: download_file of the only URL returned (a panic in it ends the
\* process with the status of a panic).
SingleReturn ==
    /\ mainPc = "single"
    /\ dl[1].pc \in {"done", "panicked"}
    /\ IF dl[1].pc = "done"
       THEN /\ results' = << dl[1].result >>
            /\ mainPc' = "report"
            /\ UNCHANGED exitStatus
       ELSE /\ mainPc' = "exit"
            /\ exitStatus' = 101
            /\ UNCHANGED results
    /\ UNCHANGED << fixed, joined, semaphore, batchSem, dl, ck, files, nextIno, touched, faults >>

\* download_batch returns its results.
BatchReturn ==
    /\ mainPc = "batch"
    /\ joined = Len(urls)
    /\ mainPc' = "report"
    /\ UNCHANGED << fixed, exitStatus, results, joined, semaphore, batchSem,
                    dl, ck, files, nextIno, touched, faults >>

\* main: results.iter().filter(|r| r.success).count()
SuccessCount(rs) == Cardinality({k \in 1..Len(rs) : rs[k].success})

\* main: the exit status.
ExitCode(rs) == IF SuccessCount(rs) = Len(rs) THEN 0 ELSE 1

\* main: print the results, exit.
MainExit ==
    /\ mainPc = "report"
    /\ mainPc' = "exit"
    /\ exitStatus' = ExitCode(results)
    /\ UNCHANGED << fixed, results, joined, semaphore, batchSem,
                    dl, ck, files, nextIno, touched, faults >>

Next ==
    \/ MainStart
    \/ JoinHandle
    \/ SingleReturn
    \/ BatchReturn
    \/ MainExit
    \/ \E d \in Ids :
          \/ AcquireBatch(d)
          \/ HeadRequest(d)
          \/ HeadBackoff(d)
          \/ CreateDir(d)
          \/ SingleGet(d)
          \/ SingleFrame(d)
          \/ SingleEnd(d)
          \/ SingleError(d)
          \/ MultiStart(d)
          \/ MultiJoin(d)
          \/ \E i \in 1..Len(ck[d]) :
                \/ ChunkAcquire(d, i)
                \/ ChunkSend(d, i)
                \/ ChunkFrame(d, i)
                \/ ChunkDone(d, i)
                \/ ChunkStreamError(d, i)
                \/ ChunkBackoff(d, i)

Spec == Init /\ [][Next]_vars

\* The runtime runs every task that can take a step, and every request,
\* body stream and sleep ends: a step that stays possible is taken.
SpecFair == Spec /\ WF_vars(Next)

\* ---------------------------------------------------------------- planner calls
\* A call of create_chunks on any file size of the word, any connections
\* and chunk_size_mb up to the bounds, in either build.
InitChunks ==
    /\ call \in [file_size : 0..(U64Modulus - 1), supports_ranges : BOOLEAN,
                 connections : 1..MaxConnections, chunk_size_mb : 1..MaxChunkSizeMb,
                 overflow_checks : BOOLEAN, done : {FALSE},
                 out : {[panic |-> FALSE, chunks |-> << >>]}]
    /\ EngineInit(<< UrlAF >>, [connections |-> call.connections,
                                chunk_size_mb |-> call.chunk_size_mb,
                                retries |-> 1, max_concurrent |-> 1],
                  [d \in {1} |-> Server(200, call.file_size, call.supports_ranges, TRUE)], 0)

CreateChunksCall ==
    /\ ~call.done
    /\ call' = [call EXCEPT !.done = TRUE,
                            !.out = create_chunks(call.file_size, call.supports_ranges,
                                                  call.connections, call.chunk_size_mb,
                                                  call.overflow_checks)]
    /\ UNCHANGED engineVars

NextChunks == CreateChunksCall

SpecChunks == InitChunks /\ [][NextChunks]_vars

\* ---------------------------------------------------------------- properties
\* chunks is a partition of [0, file_size - 1] into consecutive ranges.
Partitions(chunks, file_size) ==
    /\ Len(chunks) >= 1
    /\ chunks[1].start = 0
    /\ chunks[Len(chunks)].end = file_size - 1
    /\ \A k \in 1..Len(chunks) : /\ chunks[k].start <= chunks[k].end
                                 /\ chunks[k].size = chunks[k].end - chunks[k].start + 1
    /\ \A k \in 1..(Len(chunks) - 1) : chunks[k + 1].start = chunks[k].end + 1

RECURSIVE SumSizes(_)
SumSizes(chunks) == IF chunks = << >> THEN 0 ELSE Head(chunks).size + SumSizes(Tail(chunks))

\* C1: for every file_size >= 1, connections >= 1 and chunk_size_mb >= 1 with
\* supports_ranges, create_chunks returns between 1 and connections chunks
\* that partition [0, file_size - 1], and whose sizes sum to file_size.
C1_ChunkCoverage ==
    (call.done /\ call.supports_ranges /\ call.file_size >= 1) =>
        /\ ~call.out.panic
        /\ Len(call.out.chunks) \in 1..call.connections
        /\ Partitions(call.out.chunks, call.file_size)
        /\ SumSizes(call.out.chunks) = call.file_size

\* The sizes for which file_size + chunk_size - 1 stays inside the word.
C1_InRange == call.file_size + call.chunk_size_mb * MiB < U64Modulus

\* (not a claim) C1 holds of every call whose sizes are in range.
C1_ChunkCoverageInRange == C1_InRange => C1_ChunkCoverage

\* download_file of d has returned its result.
Returned(d) == dl[d].pc = "done"
Failed(d) == Returned(d) /\ ~dl[d].result.success
Succeeded(d) == Returned(d) /\ dl[d].result.success

\* C2: after download_file returns success = false, whatever the failing
\* step and whatever other downloads of the batch are interleaved with it,
\* no file exists at its target path output_dir/filename.
C2_NoLeftoverOnFailure == \A d \in Ids : Failed(d) => ~dl[d].leftover

\* The downloads whose target path is that of d.
SamePath(d) == {e \in Ids : Path(e) = Path(d)}

\* (not a claim) C2 holds of the downloads that share their path with no other.
C2_NoLeftoverUnshared == \A d \in Ids : (Failed(d) /\ SamePath(d) = {d}) => ~dl[d].leftover

\* C3: after a download that returns success = true, by either strategy and
\* also when chunk attempts failed part-way and were retried,
\* stats.downloaded (the file_size of the result) is the probed file_size
\* when that is not 0, and the number of body bytes received when it is 0.
\* (Stated for the servers that answer a Range request with that range.)
C3_DownloadedIsSize ==
    \A d \in Ids : (Succeeded(d) /\ server[d].honors_range) =>
        /\ dl[d].result.file_size = dl[d].downloaded
        /\ dl[d].total_size # 0 => dl[d].downloaded = dl[d].total_size
        /\ dl[d].total_size = 0 => dl[d].downloaded = dl[d].received

\* (not a claim) C3 holds of the downloads none of whose chunks was retried.
C3_DownloadedIsSizeNoRetry ==
    \A d \in Ids : (Succeeded(d) /\ server[d].honors_range
                    /\ \A i \in 1..Len(ck[d]) : ck[d][i].retries = 0) =>
        /\ dl[d].total_size # 0 => dl[d].downloaded = dl[d].total_size
        /\ dl[d].total_size = 0 => dl[d].downloaded = dl[d].received

\* The downloads inside download_file.
Running == {d \in Ids : dl[d].pc \notin {"idle", "waiting", "done", "panicked"}}

\* C4: during download_batch at most max_concurrent download_file calls are
\* in progress: a task is inside download_file only while it holds a batch
\* permit, from its acquire until download_file has returned.
C4_BatchCap ==
    mainPc = "batch" =>
        /\ Cardinality(Running) <= config.max_concurrent
        /\ batchSem = config.max_concurrent - Cardinality(Running)

C4_Witness ==
    /\ mainPc = "batch"
    /\ Cardinality(Running) = config.max_concurrent
    /\ \E d \in Ids : dl[d].pc = "waiting"
    /\ \E d \in Ids : Failed(d)

\* The chunk attempts in flight: request sent or body being streamed.
InFlight == {c \in Ids \X (1..MaxConnections + 1) :
                c[2] <= Len(ck[c[1]]) /\ ck[c[1]][c[2]].pc \in {"send", "stream"}}

\* C5: the chunk GET attempts in flight, over all chunk tasks of all
\* downloads of the engine, are at most connections.
C5_ConnectionCap == Cardinality(InFlight) <= config.connections

C5_Witness ==
    /\ Cardinality(InFlight) = config.connections
    /\ \E c \in InFlight, e \in InFlight : c[1] # e[1]
    /\ \E d \in Ids : \E i \in 1..Len(ck[d]) : ck[d][i].pc = "acquire"

\* C6: no two downloads of one download_batch call ever create, truncate,
\* write to or delete the same path output_dir/filename, for any list of
\* input URLs.
C6_ExclusiveFiles == \A n \in DOMAIN touched : Cardinality(touched[n]) <= 1

\* (not a claim) C6 holds of the lists whose filenames are all different.
C6_ExclusiveWhenDistinct ==
    (\A d \in Ids : SamePath(d) = {d}) => C6_ExclusiveFiles

\* download_batch has returned.
BatchReturned == Len(urls) > 1 /\ mainPc \in {"report", "exit"}

\* The task of d has ended.
Ended(d) == dl[d].pc \in {"done", "panicked"}

\* C7: a failed download does not abort the batch: every other task still
\* gets a batch permit (a failed download keeps none), runs download_file
\* to its end and contributes its own result before download_batch returns,
\* and the failed result has success = false and an error message.
C7_FailureDoesNotAbort ==
    /\ \A d \in Ids : Failed(d) => dl[d].result.error # NoError
    /\ (mainPc = "batch" /\ (\E d \in Ids : Failed(d)) /\ (\E d \in Ids : dl[d].pc = "waiting"))
          => (batchSem > 0 \/ Running # {})
    /\ BatchReturned =>
          \A d \in Ids : /\ Ended(d)
                         /\ Returned(d) => \E k \in 1..Len(results) : results[k] = dl[d].result

C7_Witness ==
    /\ mainPc = "exit"
    /\ Len(urls) = 3
    /\ Succeeded(1) /\ Failed(2) /\ Succeeded(3)
    /\ dl[2].result.error = HttpError("file info", 404)
    /\ dl[2].heads = 1

\* The number of positions of seq that hold x.
Count(seq, x) == Cardinality({k \in 1..Len(seq) : seq[k] = x})

\* C8: download_batch returns exactly one result per input URL, and when no
\* task panics each result's url is the URL whose task produced it.
C8_OneResultPerUrl ==
    /\ \A d \in Ids : Returned(d) => dl[d].result.url = urls[d]
    /\ BatchReturned =>
          /\ Len(results) = Len(urls)
          /\ (\A d \in Ids : Returned(d)) =>
                \A d \in Ids : /\ Count(results, dl[d].result)
                                    = Cardinality({e \in Ids : dl[e].result = dl[d].result})
                               /\ Count([k \in 1..Len(results) |-> results[k].url], urls[d])
                                    = Count(urls, urls[d])

C8_Witness ==
    /\ BatchReturned
    /\ \E d \in Ids : dl[d].pc = "panicked"
    /\ \E d \in Ids : Succeeded(d)
    /\ \E k \in 1..Len(results) : results[k] = TaskError

\* C9: for every run that executes downloads, the exit status is 0 if and
\* only if every returned DownloadResult has success = true.
C9_ExitStatus ==
    mainPc = "exit" =>
        (exitStatus = 0 <=> \A k \in 1..Len(results) : results[k].success)

\* (not a claim) C9 holds of the runs whose downloads returned their results
\* to main, one per URL.
C9_ExitStatusOfResults ==
    (mainPc = "exit" /\ Len(results) = Len(urls)) =>
        (exitStatus = 0 <=> \A k \in 1..Len(results) : results[k].success)

\* The chunks download_multithread planned for d.
Planned(d) == create_chunks(dl[d].file_size, dl[d].supports_ranges, config.connections,
                            config.chunk_size_mb, FALSE).chunks

RECURSIVE SumGets(_)
SumGets(tasks) == IF tasks = << >> THEN 0 ELSE Head(tasks).gets + SumGets(Tail(tasks))

\* C10: in a ranged-parallel download (its chunk tasks spawned) a chunk whose
\* attempts fail k times and then succeed, k < config.retries, issues exactly
\* k + 1 GETs, all with
\* Range: bytes=start-end of the planned chunk, and is returned completed;
\* if every chunk does, the download returns success = true; with k = 0 for
\* all chunks there is one GET per planned chunk.
C10_RetriesSameRange ==
    \A d \in Ids : ck[d] # << >> =>
        LET planned == Planned(d) IN
        /\ Len(ck[d]) = Len(planned)
        /\ \A i \in 1..Len(ck[d]) :
              LET c == ck[d][i] IN
              /\ c.start = planned[i].start
              /\ c.end = planned[i].end
              /\ c.size = planned[i].size
              /\ c.ranges \subseteq {<< c.start, c.end >>}
              /\ c.pc = "ok" => /\ c.retries < config.retries
                                /\ c.gets = c.retries + 1
                                /\ c.ranges = {<< c.start, c.end >>}
                                /\ c.completed
        /\ (Returned(d) /\ \A i \in 1..Len(ck[d]) : ck[d][i].pc = "ok") => dl[d].result.success
        /\ (\A i \in 1..Len(ck[d]) : ck[d][i].pc = "ok" /\ ck[d][i].retries = 0)
              => SumGets(ck[d]) = Len(planned)

C10_Witness ==
    \E d \in Ids :
        /\ Succeeded(d)
        /\ dl[d].strategy = "multi"
        /\ \E i \in 1..Len(ck[d]) : ck[d][i].retries = 1 /\ ck[d][i].gets = 2
        /\ \E i \in 1..Len(ck[d]) : ck[d][i].retries = 0 /\ ck[d][i].gets = 1

\* The chunk tasks of d that failed / that returned their chunk.
FailedChunks(d) == {i \in 1..Len(ck[d]) : ck[d][i].pc = "err"}
OkChunks(d) == {i \in 1..Len(ck[d]) : ck[d][i].pc = "ok"}
\* The chunk tasks of d that panicked.
PanickedChunks(d) == {i \in 1..Len(ck[d]) : ck[d][i].pc = "panicked"}

\* C11: a ranged-parallel download succeeds if and only if every chunk task
\* succeeded; a chunk whose attempts all fail issues exactly config.retries
\* GETs, and the failed result's error holds, for every failed chunk, the
\* message naming its byte range start-end.
C11_FailsIffChunkFails ==
    \A d \in Ids : ck[d] # << >> =>
        /\ \A i \in 1..Len(ck[d]) : ck[d][i].gets <= config.retries
        /\ \A i \in FailedChunks(d) : /\ ck[d][i].gets = config.retries
                                      /\ ck[d][i].retries = config.retries
                                      /\ ~ck[d][i].completed
        /\ Returned(d) =>
              /\ dl[d].result.success <=> OkChunks(d) = 1..Len(ck[d])
              /\ \A i \in FailedChunks(d) :
                    \E k \in 1..Len(dl[d].result.error.chunks) :
                        dl[d].result.error.chunks[k]
                            = << ck[d][i].start, ck[d][i].end, config.retries >>
              /\ Len(dl[d].result.error.chunks)
                    = Cardinality(FailedChunks(d) \cup PanickedChunks(d))

C11_Witness ==
    \E d \in Ids :
        /\ Failed(d)
        /\ config.retries = RunRetries
        /\ Cardinality(FailedChunks(d)) = 1
        /\ Cardinality(OkChunks(d)) = 1

\* download_file of d called download_multithread / download_single_stream.
RangedParallel(d) == dl[d].pc \in {"multi", "panicked"} \/ dl[d].chunks_total > 0
SingleStream(d) == dl[d].pc \in {"single", "stream"} \/ dl[d].gets > 0

\* What the server of d and the configuration say about the three conditions.
RangedConditions(d) ==
    server[d].supports_ranges /\ server[d].file_size > MiB /\ config.connections > 1

\* C12: download_file chooses ranged-parallel exactly when supports_ranges
\* and file_size > 1 MiB and connections > 1, and single-stream in every
\* other case.
C12_StrategyChoice ==
    \A d \in Ids :
        /\ RangedParallel(d) => RangedConditions(d)
        /\ SingleStream(d) => ~RangedConditions(d)
        /\ dl[d].strategy # "none" => (RangedParallel(d) \/ SingleStream(d))
        /\ dl[d].strategy = "multi" <=> RangedParallel(d)

C12_Witness ==
    \E d \in Ids :
        /\ Succeeded(d) /\ SingleStream(d)
        /\ server[d].supports_ranges /\ server[d].file_size = MiB
        /\ config.connections > 1

\* The chunk tasks that hold a permit of FastDownloader.semaphore.
PermitHolders == {c \in Ids \X (1..MaxConnections + 1) :
                    c[2] <= Len(ck[c[1]]) /\ ck[c[1]][c[2]].pc \in {"send", "stream", "sleep"}}

\* C13: a single-stream download issues exactly one GET, without a Range
\* header and without a connection permit, and never retries: an error
\* status or a transport error in the body ends it with success = false
\* after that one GET.
C13_SingleStreamOneGet ==
    /\ semaphore + Cardinality(PermitHolders) = config.connections
    /\ \A d \in Ids : SingleStream(d) =>
          /\ ck[d] = << >>
          /\ dl[d].gets <= 1
          /\ dl[d].ranges \subseteq {<< >>}
          /\ Returned(d) => /\ dl[d].gets = 1
                            /\ dl[d].ranges = {<< >>}
                            /\ dl[d].result.success <=> (dl[d].pc = "done" /\ dl[d].ino # 0
                                                         /\ dl[d].received = dl[d].body)

C13_Witness ==
    \E d \in Ids :
        /\ Failed(d) /\ SingleStream(d)
        /\ dl[d].received > 0 /\ dl[d].received < dl[d].body
        /\ config.retries = RunRetries
        /\ faults > 0

Max(a, b) == IF a > b THEN a ELSE b

\* C14: when supports_ranges is false or file_size is 0, create_chunks
\* returns exactly one chunk with start = 0, end = max(0, file_size - 1),
\* size = file_size, completed = false and retries = 0, whatever connections
\* and chunk_size_mb are.
C14_SingleChunkPlan ==
    (call.done /\ (~call.supports_ranges \/ call.file_size = 0)) =>
        /\ ~call.out.panic
        /\ Len(call.out.chunks) = 1
        /\ call.out.chunks[1].start = 0
        /\ call.out.chunks[1].end = Max(0, call.file_size - 1)
        /\ call.out.chunks[1].size = call.file_size
        /\ ~call.out.chunks[1].completed
        /\ call.out.chunks[1].retries = 0

C14_Witness ==
    /\ call.done
    /\ call.file_size = 0 /\ call.supports_ranges
    /\ call.connections = MaxConnections /\ call.chunk_size_mb = MaxChunkSizeMb
    /\ call.out.chunks[1].end = 0

\* The chunk tasks sleeping in the backoff of download_chunk.
Sleeping == {c \in Ids \X (1..MaxConnections + 1) :
                c[2] <= Len(ck[c[1]]) /\ ck[c[1]][c[2]].pc = "sleep"}

\* C15: a chunk task holds a connection permit only from just before an
\* attempt's GET until the attempt returns: the permits taken from the
\* semaphore are those of the attempts in flight, and none is held by a
\* task sleeping in backoff.
C15_NoPermitInBackoff == semaphore = config.connections - Cardinality(InFlight)

\* (not a claim) the permits taken are those of the attempts in flight and
\* of the tasks sleeping in backoff.
C15_PermitsInFlightOrAsleep ==
    semaphore = config.connections - Cardinality(InFlight) - Cardinality(Sleeping)

\* The probe of d failed at transport level for good.
ProbeGaveUp(d) == Failed(d) /\ dl[d].result.error = Error("file info")

\* C16: when the HEAD request keeps failing at transport level the probe
\* retries 3 times after the initial attempt, sleeping before each retry,
\* and only after the last retry fails does it return the error that
\* becomes the failure result.
C16_ProbeRetries ==
    \A d \in Ids : ProbeGaveUp(d) => /\ dl[d].heads = 1 + max_retries
                                     /\ Len(dl[d].sleeps) = max_retries

\* (not a claim) the probe gives up at its third failed HEAD, after sleeps of
\* 2000 and 4000 ms, whatever config.retries is.
C16_ProbeAttempts ==
    \A d \in Ids : /\ dl[d].heads <= max_retries
                   /\ ProbeGaveUp(d) => /\ dl[d].heads = max_retries
                                        /\ dl[d].sleeps = << 2000, 4000 >>
                                        /\ dl[d].gets = 0

\* The probe of d failed on the status of a HEAD response.
ProbeHttpError(d) ==
    Returned(d) /\ dl[d].result.error.kind = "file info" /\ dl[d].result.error.status # 0

\* A status outside 2xx.
Outside2xx(status) == status < 200 \/ status > 299

\* C17: when the first HEAD response that arrives has a status outside 2xx
\* the probe fails at once with an error carrying that status and sends no
\* further HEAD; download_file returns success = false without any GET,
\* without creating the output directory or any file, and with file_size 0.
C17_ProbeStatusFailsAtOnce ==
    \A d \in Ids :
        /\ Outside2xx(server[d].status) =>
              /\ dl[d].pc \in {"idle", "waiting", "probe", "probe_sleep", "done"}
              /\ dl[d].heads <= dl[d].retries + 1
              /\ Returned(d) => (ProbeHttpError(d) \/ ProbeGaveUp(d))
        /\ ProbeHttpError(d) =>
              /\ ~dl[d].result.success
              /\ dl[d].result.error = HttpError("file info", server[d].status)
              /\ Outside2xx(server[d].status)
              /\ dl[d].heads = dl[d].retries + 1
              /\ dl[d].gets = 0 /\ ck[d] = << >>
              /\ ~dl[d].dir_created
              /\ d \notin touched[Path(d)]
              /\ dl[d].result.file_size = 0

C17_Witness ==
    \E d \in Ids :
        /\ ProbeHttpError(d)
        /\ dl[d].result.error.status = 404
        /\ dl[d].heads = 2 /\ dl[d].retries = 1
        /\ faults > 0

\* The chunk tasks of d that have sent a GET.
Requested(d) == {i \in 1..Len(ck[d]) : ck[d][i].gets > 0}

\* Chunk task i of d covers the whole file.
WholeFile(d, i) == ck[d][i].start = 0 /\ ck[d][i].end = dl[d].file_size - 1

\* C18: a chunk attempt adds Range: bytes=start-end unless the chunk covers
\* the whole file: the GET of a single chunk [0, file_size - 1] carries no
\* Range header, and every chunk that is a proper sub-range carries one.
C18_RangeUnlessWholeFile ==
    \A d \in Ids : \A i \in Requested(d) :
        ck[d][i].ranges = IF WholeFile(d, i) THEN {<< >>}
                          ELSE {<< ck[d][i].start, ck[d][i].end >>}

\* (not a claim) every chunk attempt carries Range: bytes=start-end, that of
\* a chunk covering the whole file too.
C18_RangeAlways ==
    \A d \in Ids : \A i \in Requested(d) :
        ck[d][i].ranges = {<< ck[d][i].start, ck[d][i].end >>}

\* Every task of the run has settled and main has left.
Settled ==
    /\ mainPc = "exit"
    /\ \A d \in Ids : /\ Ended(d)
                      /\ \A i \in 1..Len(ck[d]) : ck[d][i].pc \in {"ok", "err", "panicked"}

\* No chunk task has sent more GETs than config.retries.
AttemptsBounded ==
    \A d \in Ids : \A i \in 1..Len(ck[d]) : ck[d][i].gets <= config.retries

\* C19: under fair scheduling, with every request and body stream ending,
\* every download_file call and every download_batch call ends: no chunk
\* task waits forever for a connection permit, no URL task waits forever for
\* a batch permit, and every chunk task settles after at most config.retries
\* attempts (the bound holds at the start and after every step).
C19_EveryCallEnds ==
    /\ AttemptsBounded
    /\ [][AttemptsBounded']_vars
    /\ <>[]Settled

C19_Witness ==
    /\ Settled
    /\ Len(urls) = 2
    /\ config.max_concurrent = RunMaxConcurrent
    /\ \A d \in Ids : Succeeded(d) /\ Len(ck[d]) = 2
    /\ \E d \in Ids : \E i \in 1..Len(ck[d]) : ck[d][i].retries = 1

\* No chunk task of d is waiting, requesting, writing or sleeping.
ChunksSettled(d) == \A i \in 1..Len(ck[d]) : ck[d][i].pc \in {"ok", "err", "panicked"}

\* The step spawns the chunk tasks of d.
Spawns(d) == ck[d] = << >> /\ ck'[d] # << >>

\* The step is download_file of d removing the file or returning.
Reports(d) == dl[d].pc # "done" /\ dl'[d].pc = "done"

\* C20: a ranged-parallel download awaits all its chunk tasks before it
\* reports: the file is preallocated to file_size when the first chunk task
\* is spawned, and when download_file removes the partial file or returns
\* its result no chunk task of the download is still running, retrying,
\* sleeping or writing.
C20_AwaitsAllChunks ==
    /\ \A d \in Ids : Returned(d) => ChunksSettled(d)
    /\ [][\A d \in Ids :
            /\ Returned(d)' => ChunksSettled(d)'
            /\ Spawns(d) => /\ files'[Path(d)].exists
                            /\ files'[Path(d)].len = dl[d].file_size
                            /\ d \in touched'[Path(d)]
            /\ Reports(d) => /\ ChunksSettled(d)
                             /\ ck'[d] = ck[d]]_vars

C20_Witness ==
    \E d \in Ids :
        /\ Failed(d)
        /\ FailedChunks(d) # {} /\ OkChunks(d) # {}
        /\ \E i \in OkChunks(d) : ck[d][i].retries > 0
        /\ ~files[Path(d)].exists

\* The chunk tasks of d whose current or last attempt wrote a frame.
Writers(d) == {i \in 1..Len(ck[d]) : ck[d][i].written > 0}

\* The last file offset chunk task i of d wrote in its current or last
\* attempt: the attempt seeks to chunk.start and writes the frames in a row.
LastWritten(d, i) == ck[d][i].start + ck[d][i].written - 1

\* C21: within one ranged-parallel download the writes of different chunk
\* tasks are disjoint, for every response an attempt accepts (200 as well
\* as 206): every byte a chunk task writes lands inside its own
\* [start, end], no offset is written by two chunk tasks, and no write goes
\* past file_size - 1.
C21_WritesDisjoint ==
    \A d \in Ids :
        /\ \A i \in Writers(d) : /\ LastWritten(d, i) <= ck[d][i].end
                                 /\ LastWritten(d, i) <= dl[d].file_size - 1
        /\ \A i, j \in Writers(d) :
               i < j => \/ LastWritten(d, i) < ck[d][j].start
                        \/ LastWritten(d, j) < ck[d][i].start

\* (not a claim) the writes are disjoint and inside the file when the server
\* answers every Range request with the bytes of the range.
C21_WritesDisjointWhenHonored ==
    \A d \in Ids :
        server[d].honors_range =>
            /\ \A i \in Writers(d) : /\ LastWritten(d, i) <= ck[d][i].end
                                     /\ LastWritten(d, i) <= dl[d].file_size - 1
            /\ \A i, j \in Writers(d) :
                   i < j => \/ LastWritten(d, i) < ck[d][j].start
                            \/ LastWritten(d, j) < ck[d][i].start

\* C22: download_batch returns its results in the order of the input URL
\* list, whatever order the downloads complete in: result k is the result
\* of the task of the k-th URL, with that URL in it, or the "unknown"
\* failure when that task panicked; the results so far are those of the
\* first handles, and the batch returns one result per URL.
C22_ResultsInInputOrder ==
    Len(urls) > 1 =>
        /\ Len(results) = joined
        /\ \A k \in 1..Len(results) :
              IF dl[k].pc = "panicked"
              THEN results[k] = TaskError
              ELSE /\ results[k] = dl[k].result
                   /\ results[k].url = urls[k]
        /\ BatchReturned => Len(results) = Len(urls)

\* A batch of two with one batch permit has returned; the download of the
\* second URL created its file, and so ended, before that of the first began.
C22_Witness ==
    /\ BatchReturned
    /\ Len(urls) = 2 /\ urls[1] # urls[2]
    /\ config.max_concurrent = 1
    /\ Succeeded(1) /\ Succeeded(2)
    /\ files[Path(1)].exists /\ files[Path(2)].exists
    /\ files[Path(2)].ino < files[Path(1)].ino
    /\ results = << dl[1].result, dl[2].result >>

\* The step is a frame written by chunk task i of d after which the progress
\* line, and with it eta_seconds, is evaluated.
EtaEvaluated(d, i) ==
    /\ i \in 1..Len(ck[d])
    /\ ck'[d][i].written > ck[d][i].written
    /\ ReportsProgress(ck'[d][i].written)

\* C23: whenever eta_seconds is evaluated in a chunk attempt,
\* stats.downloaded <= stats.total_size, so total_size - downloaded does not
\* underflow (no task panics in it and the difference is the bytes that
\* remain), also after attempts that streamed part of their body, failed
\* and were retried from chunk.start. (Stated for the servers that answer
\* a Range request with that range.)
C23_EtaNoUnderflow ==
    /\ \A d \in Ids : server[d].honors_range => PanickedChunks(d) = {}
    /\ [][\A d \in Ids : \A i \in 1..Len(ck'[d]) :
            (EtaEvaluated(d, i) /\ server[d].honors_range) =>
                /\ dl'[d].downloaded <= dl'[d].total_size
                /\ EtaRemaining(dl'[d]) = dl'[d].total_size - dl'[d].downloaded
                /\ ck'[d][i].pc # "panicked"]_vars

\* (not a claim) eta_seconds does not underflow in a download whose server
\* answers every Range request with the range and none of whose chunks was
\* retried.
C23_EtaNoUnderflowNoRetry ==
    [][\A d \in Ids : \A i \in 1..Len(ck'[d]) :
        (/\ EtaEvaluated(d, i)
         /\ server[d].honors_range
         /\ \A j \in 1..Len(ck[d]) : ck[d][j].retries = 0) =>
            /\ dl'[d].downloaded <= dl'[d].total_size
            /\ ck'[d][i].pc # "panicked"]_vars

\* C24: connection permits are conserved and never leaked: the permits held
\* by chunk tasks plus the permits available are config.connections (each
\* chunk task holding at most the one of its loop iteration), no chunk task
\* of a download that has returned holds a permit, and when every download
\* has ended all config.connections permits are available.
C24_PermitsConserved ==
    /\ semaphore \in 0..config.connections
    /\ semaphore + Cardinality(PermitHolders) = config.connections
    /\ \A d \in Ids :
          Ended(d) => \A i \in 1..Len(ck[d]) : << d, i >> \notin PermitHolders
    /\ (\A d \in Ids : Ended(d)) => semaphore = config.connections

\* The engine is idle after a download in which one chunk task ran out of
\* attempts, having slept with its permit, and another completed after a
\* retry.
C24_Witness ==
    /\ mainPc = "exit"
    /\ semaphore = config.connections
    /\ config.connections = RunConnections /\ config.retries = RunRetries
    /\ \E d \in Ids :
          /\ Failed(d)
          /\ \E i \in FailedChunks(d) : ck[d][i].retries = RunRetries
          /\ \E i \in OkChunks(d) : ck[d][i].retries = 1

====
